---- MODULE Spec2Model ----
(***************************************************************************)
(* A model of scripts/mount_veracrypt_volume.py: the launcher that loads a *)
(* [Veracrypt] configuration section, validates it, assembles the command  *)
(* line of the external encryption tool and waits for that tool.           *)
(*                                                                         *)
(* Text is modelled as a sequence of pieces (short strings).  The piece    *)
(* "/" is the POSIX path separator and no other piece contains one, so the *)
(* normalisation pathlib applies to a path can be computed on the pieces.  *)
(* The program is run twice (Runs), the two runs sharing every answer of   *)
(* the host and every input except the password value, so that what a run  *)
(* prints can be compared between two passwords.                           *)
(***************************************************************************)
EXTENDS Integers, Sequences, FiniteSets, TLC

VARIABLES platform, file, oracle, asked, pc, config, log, trace, err,
          cmdline, tool, dirExists, exitCode

vars == <<platform, file, oracle, asked, pc, config, log, trace, err,
          cmdline, tool, dirExists, exitCode>>

(***************************************************************************)
(* Bounds of the model.                                                    *)
(***************************************************************************)
MaxSlot == 2        \* slot_num values "2" .. MaxSlot, above the default "1"
MaxDrive == 0       \* physical_drive_num values "0" .. MaxDrive
MaxOutLen == 1      \* longest captured output of a diagnostic, in bytes

Runs == {1, 2}

Platforms == {"darwin", "linux", "win32"}

Digit(i) == <<"0", "1", "2", "3", "4", "5", "6", "7", "8", "9">>[i + 1]

(***************************************************************************)
(* Configuration: a mapping from the keys present in the section to text.  *)
(***************************************************************************)
Keys == {"keyfile_path", "volume_password", "personal_iterations_multiplier",
         "using_hidden_partition", "slot_num", "use_truecrypt",
         "drive_partition", "physical_drive_num", "wsl_exe", "wsl_root"}

KeyOrder == <<"keyfile_path", "volume_password", "personal_iterations_multiplier",
              "using_hidden_partition", "slot_num", "use_truecrypt",
              "drive_partition", "physical_drive_num", "wsl_exe", "wsl_root">>

EmptyConfig == [k \in {} |-> <<>>]

Absent == <<"<absent>">>

\* The mapping that holds exactly the keys f gives a value other than Absent.
Section(f) == [k \in {x \in DOMAIN f : f[x] # Absent} |-> f[k]]

\* The password of each run, whether the file holds it or the user types it.
PasswordOf(r) == IF r = 1 THEN <<"hunter2">> ELSE <<"swordfish">>

Secrets == {PasswordOf(r) : r \in Runs}

\* SectionProxy.get(key): the value, or None for a key that is absent.
Has(config_data, key) == key \in DOMAIN config_data

\* SectionProxy.get(key, fallback).
Get(config_data, key, fallback) ==
    IF Has(config_data, key) THEN config_data[key] ELSE fallback

\* bool(config_data.get(key)): None and the empty string are false.
Truthy(config_data, key) == Has(config_data, key) /\ config_data[key] # <<>>

\* f"{config_data.get(key)}": the value, or the text None for an absent key.
StrOf(config_data, key) == Get(config_data, key, <<"None">>)

\* The None object itself, where the code places it in a list unformatted.
PyNone == <<"<None object>">>

\* str.lower() on the pieces a boolean option may hold.
Lower(piece) ==
    CASE piece = "True" -> "true"
      [] piece = "OFF" -> "off"
      [] OTHER -> piece

\* configparser's BOOLEAN_STATES; getboolean is "true", "false", "none" (absent
\* key, the fallback) or "error" (ValueError: not a boolean).
GetBoolean(config_data, key) ==
    IF ~Has(config_data, key) THEN "none"
    ELSE LET v == config_data[key]
         IN  IF Len(v) # 1 THEN "error"
             ELSE IF Lower(v[1]) \in {"1", "yes", "true", "on"} THEN "true"
             ELSE IF Lower(v[1]) \in {"0", "no", "false", "off"} THEN "false"
             ELSE "error"

(***************************************************************************)
(* pathlib: Path(seg1, seg2, ...).as_posix() joins the segments with "/",  *)
(* collapses repeated separators and drops a trailing one.                 *)
(***************************************************************************)
RECURSIVE JoinWith(_, _)
JoinWith(segments, sep) ==
    IF segments = <<>> THEN <<>>
    ELSE IF Len(segments) = 1 THEN segments[1]
    ELSE segments[1] \o <<sep>> \o JoinWith(Tail(segments), sep)

RECURSIVE DropSeparators(_, _)
DropSeparators(s, i) ==
    IF i = 0 THEN <<>>
    ELSE IF s[i] = "/" /\ (i = Len(s) \/ s[i + 1] = "/")
         THEN DropSeparators(s, i - 1)
         ELSE Append(DropSeparators(s, i - 1), s[i])

PathPosix(segments) ==
    LET joined == JoinWith(segments, "/")
    IN  DropSeparators(joined, Len(joined))

build_physical_drive_name(physical_drive_number) ==
    <<"PHYSICALDRIVE">> \o physical_drive_number

(***************************************************************************)
(* build_veracrypt_cmdline                                                 *)
(***************************************************************************)
\* list.insert(index, item), index counted from 0 and clamped to the length.
ListInsert(list, index, item) ==
    LET at == IF index > Len(list) THEN Len(list) ELSE index
    IN  SubSeq(list, 1, at) \o <<item>> \o SubSeq(list, at + 1, Len(list))

DefaultSlot == <<"1">>

SlotNum(config_data) == Get(config_data, "slot_num", DefaultSlot)

BaseCmdline(config_data) ==
    << <<"veracrypt">>,
       <<"-t">>,
       <<"--keyfiles=">> \o StrOf(config_data, "keyfile_path"),
       <<"--password=">> \o StrOf(config_data, "volume_password"),
       <<"--pim=">> \o StrOf(config_data, "personal_iterations_multiplier"),
       <<"--protect-hidden=">> \o StrOf(config_data, "using_hidden_partition"),
       <<"--slot=">> \o SlotNum(config_data),
       StrOf(config_data, "drive_partition") >>

TruecryptIndex == 3

NoKernelCryptoIndex == 3

\* The legacy flag placed one token early.
WithTruecryptEarly(list, config_data) ==
    IF GetBoolean(config_data, "use_truecrypt") = "true"
    THEN ListInsert(list, TruecryptIndex - 1, <<"-tc">>)
    ELSE list

WithTruecrypt(list, config_data) ==
    IF GetBoolean(config_data, "use_truecrypt") = "true"
    THEN ListInsert(list, TruecryptIndex, <<"-tc">>)
    ELSE list

MountPointWindowsPosix(config_data) ==
    PathPosix(<< <<"/", "mnt">>, <<"wsl">>,
                 build_physical_drive_name(StrOf(config_data, "physical_drive_num")) >>)

\* A mount point that forgets the configured slot.
MountPointLinuxDefaultSlot(config_data) ==
    PathPosix(<< <<"/", "media">>, <<"veracrypt">> \o DefaultSlot >>)

MountPointLinux(config_data) ==
    PathPosix(<< <<"/", "media">>, <<"veracrypt">> \o SlotNum(config_data) >>)

WithWindows(list, config_data) ==
    Append(ListInsert(ListInsert(list, 0, Get(config_data, "wsl_exe", PyNone)),
                      NoKernelCryptoIndex, <<"-m=nokernelcrypto">>),
           MountPointWindowsPosix(config_data))

WithLinux(list, config_data) == Append(list, MountPointLinux(config_data))

WithPlatform(list, config_data, plat) ==
    CASE plat = "win32" -> WithWindows(list, config_data)
      [] plat = "linux" -> WithLinux(list, config_data)
      [] OTHER -> list

\* raised: getboolean raised ValueError and nothing is returned.
build_veracrypt_cmdline(config_data, plat) ==
    IF GetBoolean(config_data, "use_truecrypt") = "error"
    THEN [raised |-> TRUE, value |-> <<>>]
    ELSE [raised |-> FALSE,
          value |-> WithPlatform(WithTruecrypt(BaseCmdline(config_data), config_data),
                                 config_data, plat)]

(***************************************************************************)
(* mount_physical_drive: the argument list handed to subprocess.run.       *)
(***************************************************************************)
mount_physical_drive(drive_num, wsl_exe) ==
    [op |-> "attach",
     argv |-> << wsl_exe, <<"--mount">>,
                 <<"\\\\.\\">> \o build_physical_drive_name(drive_num),
                 <<"--bare">> >>]

Event(op) == [op |-> op, argv |-> <<>>]

RunEvent(op, argv) == [op |-> op, argv |-> argv]

(***************************************************************************)
(* The host: what the operating system and the user answer.  An answer is  *)
(* chosen when a run first asks for it and is the same for the other run.  *)
(***************************************************************************)
Bytes == {115, 10}

RECURSIVE BytesUpTo(_)
BytesUpTo(n) ==
    IF n = 0 THEN {<<>>}
    ELSE BytesUpTo(n - 1) \cup
         {Append(b, x) : b \in {y \in BytesUpTo(n - 1) : Len(y) = n - 1}, x \in Bytes}

Outputs == BytesUpTo(MaxOutLen)

\* bytes.decode(): the text of a captured output.
CharOf(byte) == IF byte = 10 THEN "\n" ELSE "s"

Decode(bytes) == [i \in 1..Len(bytes) |-> CharOf(bytes[i])]

NoAnswers ==
    [admin |-> FALSE, which |-> FALSE, exists |-> FALSE, parent |-> FALSE,
     wmic |-> <<>>, lsblk |-> <<>>]

\* The host answers `answer` to `question`.
Answers(question, answer) ==
    /\ question \in asked => answer = oracle[question]
    /\ oracle' = [oracle EXCEPT ![question] = answer]
    /\ asked' = asked \cup {question}

(***************************************************************************)
(* have_admin_rights: getuid() == 0 on Linux, IsUserAnAdmin() != 0 on      *)
(* Windows, False on any other platform.                                   *)
(***************************************************************************)
SupportedPlatforms == {"linux", "win32"}

\* A check that takes an unknown platform to need no rights.
have_admin_rights_lenient(plat, elevated) ==
    plat \notin SupportedPlatforms \/ elevated

have_admin_rights(plat, elevated) ==
    CASE plat = "linux" -> elevated
      [] plat = "win32" -> elevated
      [] OTHER -> FALSE

(***************************************************************************)
(* Logging and the console.                                                *)
(***************************************************************************)
Line(level, text) == [level |-> level, text |-> text]

\* The value main logs for a configuration item.
\* A log that masks nothing.
UnmaskedValue(config_name, config_value) == config_value

MaskedValue(config_name, config_value) ==
    IF config_name = "volume_password" THEN <<"******">> ELSE config_value

RECURSIVE DebugLines(_, _)
DebugLines(config_data, i) ==
    IF i = 0 THEN <<>>
    ELSE LET k == KeyOrder[i]
         IN  IF Has(config_data, k)
             THEN Append(DebugLines(config_data, i - 1),
                         Line("DEBUG", <<k, "=">> \o MaskedValue(k, config_data[k])))
             ELSE DebugLines(config_data, i - 1)

LoadingLine == Line("INFO", <<"Loading configuration from config file '<name>'...">>)

VolumeLine(list) ==
    Line("INFO", <<"Mounting Veracrypt volume '">> \o list[Len(list) - 1]
                 \o <<"' to '">> \o list[Len(list)] \o <<"'...">>)

AdminErrorLines ==
    << Line("ERROR", <<"This script requires administrative rights to mount volumes.">>),
       Line("ERROR", <<"Please re-run this script as an administrator or as root.">>) >>

ConfigErrorLines(message) ==
    << Line("ERROR", <<"An error has been detected in the configuration file:">>),
       Line("ERROR", message) >>

PausePrompt == Line("CONSOLE", <<"Press any key to exit...">>)

PasswordPrompt == Line("CONSOLE", <<"Enter Volume Password: ">>)

(***************************************************************************)
(* The messages of the ConfigErrors.                                       *)
(***************************************************************************)
SectionError == <<"Section [Veracrypt] not found in config file!">>

WslRootError == <<"WSL_ROOT is not set! Please set it to WSL's root share path">>

WslExeError(wsl_path) ==
    <<"Unable to find Windows Subsystem for Linux executable at '">> \o wsl_path
    \o <<"'! Please make sure WSL is installed at the path set for WSL_EXE">>

DriveNumError(wmic_drive_list) ==
    <<"PHYSICAL_DRIVE_NUM is not set! Currently detected physical drives:\n">>
    \o wmic_drive_list

PartitionError(partition_list) ==
    <<"DRIVE_PARTITION is not set! Currently detected Linux partitions:\n">>
    \o partition_list

NoError == [kind |-> "none", message |-> <<>>]

AdminError == [kind |-> "admin", message |-> <<>>]

ConfigError(message) == [kind |-> "config", message |-> message]

(***************************************************************************)
(* Exit codes of main.                                                     *)
(***************************************************************************)
ExitSuccess == 0

ExitAdminError == -1

ExitConfigError == -2

\* One error code for both kinds of error.
ExitCodeOfAnyError(kind) == ExitAdminError

ExitCodeOf(kind) == IF kind = "admin" THEN ExitAdminError ELSE ExitConfigError

(***************************************************************************)
(* The state after construction.                                           *)
(***************************************************************************)
Terminal == {"done", "crashed"}

SlotOptions ==
    {Absent} \cup {<<Digit(i)>> : i \in 2..MaxSlot} \cup {<<Digit(MaxSlot), "/">>}

DriveOptions == {Absent, <<>>} \cup {<<Digit(i)>> : i \in 0..MaxDrive}

AllConfigs ==
    {Section([keyfile_path |-> kf, volume_password |-> pw,
              personal_iterations_multiplier |-> pim,
              using_hidden_partition |-> hid, slot_num |-> slot,
              use_truecrypt |-> tc, drive_partition |-> part,
              physical_drive_num |-> num, wsl_exe |-> exe, wsl_root |-> root]) :
        kf \in {Absent, <<"key.bin">>},
        pw \in {Absent, <<>>} \cup Secrets,
        pim \in {Absent, <<"485">>},
        hid \in {Absent, <<"no">>},
        slot \in SlotOptions,
        tc \in {Absent, <<"True">>, <<"off">>, <<"maybe">>},
        part \in {Absent, <<>>, <<"/", "dev", "/", "sda1">>},
        num \in DriveOptions,
        exe \in {Absent, <<"mywsl.exe">>},
        root \in {Absent, <<>>, <<"\\\\wsl.localhost\\Ubuntu">>}}

PassThrough == {"keyfile_path", "personal_iterations_multiplier",
                "using_hidden_partition"}

WslKeys == {"physical_drive_num", "wsl_exe", "wsl_root"}

\* The keys of `keys` are all missing from c, or all there and not empty.
AllOrNone(c, keys) ==
    \/ keys \cap DOMAIN c = {}
    \/ keys \subseteq DOMAIN c /\ \A k \in keys : c[k] # <<>>

\* The configurations main is run on, on platform plat: the keys main only
\* passes on are all there or all missing, and so are the WSL keys where no run
\* reads them; a password in the file is the first run's.
MainConfigs(plat) ==
    {c \in AllConfigs :
        /\ AllOrNone(c, PassThrough)
        /\ plat # "win32" => AllOrNone(c, WslKeys)
        /\ Truthy(c, "volume_password") => c["volume_password"] = PasswordOf(1)}

NoSectionFile == [section |-> FALSE, data |-> EmptyConfig]

ConfigFile(config_data) == [section |-> TRUE, data |-> config_data]

\* The file of run r: the first run's, but for the value of a password it holds.
FileOf(r, f) ==
    IF f.section /\ Truthy(f.data, "volume_password")
    THEN ConfigFile([f.data EXCEPT !["volume_password"] = PasswordOf(r)])
    ELSE f

Quiet ==
    /\ oracle = NoAnswers
    /\ asked = {}
    /\ config = [r \in Runs |-> EmptyConfig]
    /\ log = [r \in Runs |-> <<>>]
    /\ trace = [r \in Runs |-> <<>>]
    /\ err = [r \in Runs |-> NoError]
    /\ cmdline = [r \in Runs |-> <<>>]
    /\ tool = [r \in Runs |-> "none"]
    /\ dirExists = [r \in Runs |-> FALSE]
    /\ exitCode = [r \in Runs |-> <<>>]

Init ==
    /\ platform \in Platforms
    /\ \E f \in {NoSectionFile} \cup {ConfigFile(c) : c \in MainConfigs(platform)} :
         file = [r \in Runs |-> FileOf(r, f)]
    /\ pc = [r \in Runs |-> "start"]
    /\ Quiet

(***************************************************************************)
(* main, one action per step of its body.                                  *)
(***************************************************************************)
\* The second run starts once the first has ended.
MayStep(r) == r = 1 \/ pc[1] \in Terminal

Goto(r, label) == pc' = [pc EXCEPT ![r] = label]

Say(r, lines) == log' = [log EXCEPT ![r] = @ \o lines]

Do(r, events) == trace' = [trace EXCEPT ![r] = @ \o events]

Raise(r, error) ==
    /\ err' = [err EXCEPT ![r] = error]
    /\ Goto(r, IF error.kind = "admin" THEN "except_admin" ELSE "except_config")

\* Lines 198-201: the privilege check, then the first log line.
MainCheckRights(r) ==
    /\ pc[r] = "start" /\ MayStep(r)
    /\ IF platform \in SupportedPlatforms
       THEN \E elevated \in BOOLEAN :
              /\ Answers("admin", elevated)
              /\ IF have_admin_rights(platform, elevated)
                 THEN Say(r, <<LoadingLine>>) /\ Goto(r, "load") /\ UNCHANGED err
                 ELSE Raise(r, AdminError) /\ UNCHANGED log
       ELSE /\ IF have_admin_rights(platform, FALSE)
               THEN Say(r, <<LoadingLine>>) /\ Goto(r, "load") /\ UNCHANGED err
               ELSE Raise(r, AdminError) /\ UNCHANGED log
            /\ UNCHANGED <<oracle, asked>>
    /\ UNCHANGED <<platform, file, config, trace, cmdline, tool, dirExists, exitCode>>

\* load_config_file: the section, or a ConfigError when the file has none.
load_config_file(f) ==
    IF f.section THEN [raised |-> FALSE, value |-> f.data, error |-> NoError]
    ELSE [raised |-> TRUE, value |-> EmptyConfig, error |-> ConfigError(SectionError)]

FirstCheck == IF platform = "win32" THEN "v_wsl_root" ELSE "v_partition"

\* Lines 202-207: load the section and log its items, the password masked.
MainLoad(r) ==
    /\ pc[r] = "load" /\ MayStep(r)
    /\ LET loaded == load_config_file(file[r])
       IN  /\ Do(r, <<Event("read_config")>>)
           /\ IF loaded.raised
              THEN Raise(r, loaded.error) /\ UNCHANGED <<config, log>>
              ELSE /\ config' = [config EXCEPT ![r] = loaded.value]
                   /\ Say(r, DebugLines(loaded.value, Len(KeyOrder)))
                   /\ Goto(r, FirstCheck)
                   /\ UNCHANGED err
    /\ UNCHANGED <<platform, file, oracle, asked, cmdline, tool, dirExists, exitCode>>

(***************************************************************************)
(* validate_config_data, one action per check.                             *)
(***************************************************************************)
\* Lines 140-144: WSL_ROOT must be set.
ValidateWslRoot(r) ==
    /\ pc[r] = "v_wsl_root" /\ MayStep(r)
    /\ IF ~Truthy(config[r], "wsl_root")
       THEN Raise(r, ConfigError(WslRootError))
       ELSE Goto(r, "v_wsl_exe") /\ UNCHANGED err
    /\ UNCHANGED <<platform, file, oracle, asked, config, log, trace, cmdline,
                   tool, dirExists, exitCode>>

DefaultWslExe == <<"wsl">>

\* A default that replaces a configured WSL_EXE too.
WithWslExeOverwritten(config_data) ==
    [k \in DOMAIN config_data \cup {"wsl_exe"} |->
        IF k = "wsl_exe" THEN DefaultWslExe ELSE config_data[k]]

\* Line 146: the configuration after WSL_EXE is defaulted.
WithWslExe(config_data) ==
    [k \in DOMAIN config_data \cup {"wsl_exe"} |->
        IF k = "wsl_exe" THEN Get(config_data, "wsl_exe", DefaultWslExe)
        ELSE config_data[k]]

\* Lines 146-152: default WSL_EXE and look it up on the search path.
ValidateWslExe(r) ==
    /\ pc[r] = "v_wsl_exe" /\ MayStep(r)
    /\ config' = [config EXCEPT ![r] = WithWslExe(@)]
    /\ Do(r, <<RunEvent("which", <<config'[r]["wsl_exe"]>>)>>)
    /\ \E found \in BOOLEAN :
         /\ Answers("which", found)
         /\ IF ~found
            THEN Raise(r, ConfigError(WslExeError(config'[r]["wsl_exe"])))
            ELSE Goto(r, "v_drive_num") /\ UNCHANGED err
    /\ UNCHANGED <<platform, file, log, cmdline, tool, dirExists, exitCode>>

\* A check of the drive number that never fails.
DriveNumNeverMissing(config_data) == FALSE

\* Line 154: not config_data.get("physical_drive_num").
DriveNumMissing(config_data) == ~Truthy(config_data, "physical_drive_num")

\* Lines 154-162: PHYSICAL_DRIVE_NUM must be set; list the drives if not.
ValidateDriveNum(r) ==
    /\ pc[r] = "v_drive_num" /\ MayStep(r)
    /\ IF DriveNumMissing(config[r])
       THEN \E out \in Outputs :
              /\ Answers("wmic", out)
              /\ Do(r, <<RunEvent("wmic", << <<"wmic.exe">>, <<"diskdrive">>,
                                             <<"list">>, <<"brief">> >>)>>)
              /\ Raise(r, ConfigError(DriveNumError(Decode(out))))
       ELSE /\ Goto(r, "v_partition")
            /\ UNCHANGED <<oracle, asked, trace, err>>
    /\ UNCHANGED <<platform, file, config, log, cmdline, tool, dirExists, exitCode>>

\* Where a missing partition is resolved: on Windows the drive is attached first.
ResolvePartition(plat) == IF plat = "win32" THEN "v_attach" ELSE "v_lsblk"

\* Line 164: is DRIVE_PARTITION set?
ValidatePartition(r) ==
    /\ pc[r] = "v_partition" /\ MayStep(r)
    /\ IF ~Truthy(config[r], "drive_partition")
       THEN Goto(r, ResolvePartition(platform))
       ELSE Goto(r, "v_password")
    /\ UNCHANGED <<platform, file, oracle, asked, config, log, trace, err,
                   cmdline, tool, dirExists, exitCode>>

\* Lines 168-170: attach the drive so that its partitions can be listed.
\* config_data[key] raises KeyError, which main does not handle, for a missing key.
ValidateAttach(r) ==
    /\ pc[r] = "v_attach" /\ MayStep(r)
    /\ IF Has(config[r], "wsl_exe") /\ Has(config[r], "physical_drive_num")
       THEN /\ Do(r, <<mount_physical_drive(config[r]["physical_drive_num"],
                                            config[r]["wsl_exe"])>>)
            /\ Goto(r, "v_lsblk")
       ELSE Goto(r, "crashed") /\ UNCHANGED trace
    /\ UNCHANGED <<platform, file, oracle, asked, config, log, err, cmdline,
                   tool, dirExists, exitCode>>

LsblkCmdline(config_data, plat) ==
    IF plat = "win32" THEN << config_data["wsl_exe"], <<"lsblk">> >>
    ELSE << <<"lsblk">> >>

\* An error that leaves the listing out.
PartitionFailureNoListing(out) == ConfigError(PartitionError(<<>>))

\* The error validation ends with once the partitions are listed.
PartitionFailure(out) == ConfigError(PartitionError(Decode(out)))

\* Lines 173-180: list the partitions and fail with the listing.
ValidateLsblk(r) ==
    /\ pc[r] = "v_lsblk" /\ MayStep(r)
    /\ \E out \in Outputs :
         /\ Answers("lsblk", out)
         /\ Do(r, <<RunEvent("lsblk", LsblkCmdline(config[r], platform))>>)
         /\ Raise(r, PartitionFailure(out))
    /\ UNCHANGED <<platform, file, config, log, cmdline, tool, dirExists, exitCode>>

\* A main without its Windows block.
AfterValidationNoAttach == "build"

AfterValidation == IF platform = "win32" THEN "mount_point" ELSE "build"

\* Line 183: the configuration after the typed password is stored.
WithPassword(config_data, typed) ==
    [k \in DOMAIN config_data \cup {"volume_password"} |->
        IF k = "volume_password" THEN typed ELSE config_data[k]]

\* Lines 182-183: ask for the password when the configuration has none.
ValidatePassword(r) ==
    /\ pc[r] = "v_password" /\ MayStep(r)
    /\ IF ~Truthy(config[r], "volume_password")
       THEN \E typed \in {PasswordOf(r)} :
              /\ config' = [config EXCEPT ![r] = WithPassword(@, typed)]
              /\ Say(r, <<PasswordPrompt>>)
              /\ Do(r, <<Event("getpass")>>)
       ELSE UNCHANGED <<config, log, trace>>
    /\ Goto(r, AfterValidation)
    /\ UNCHANGED <<platform, file, oracle, asked, err, cmdline, tool, dirExists,
                   exitCode>>

(***************************************************************************)
(* main after validation.                                                  *)
(***************************************************************************)
\* Lines 212-217: the mount point as Windows sees it.
MountPointWindows(config_data) ==
    JoinWith(<< Get(config_data, "wsl_root", PyNone), <<"mnt">>, <<"wsl">>,
                build_physical_drive_name(StrOf(config_data, "physical_drive_num")) >>,
             "\\")

CreatingLine(config_data) ==
    Line("INFO", <<"Creating mount point at '">> \o MountPointWindows(config_data)
                 \o <<"'...">>)

\* Lines 219-221: create the mount point unless it exists; mkdir raises
\* FileNotFoundError, which main does not handle, when the parent is missing.
MainMountPoint(r) ==
    /\ pc[r] = "mount_point" /\ MayStep(r)
    /\ \E exists \in BOOLEAN :
         /\ "exists" \in asked => exists = oracle.exists
         /\ IF exists
            THEN /\ oracle' = [oracle EXCEPT !.exists = exists]
                 /\ asked' = asked \cup {"exists"}
                 /\ dirExists' = [dirExists EXCEPT ![r] = TRUE]
                 /\ Goto(r, "attach")
                 /\ UNCHANGED <<log, trace>>
            ELSE \E parent \in BOOLEAN :
                   /\ "parent" \in asked => parent = oracle.parent
                   /\ oracle' = [oracle EXCEPT !.exists = exists, !.parent = parent]
                   /\ asked' = asked \cup {"exists", "parent"}
                   /\ Say(r, <<CreatingLine(config[r])>>)
                   /\ Do(r, <<RunEvent("mkdir", <<MountPointWindows(config[r])>>)>>)
                   /\ dirExists' = [dirExists EXCEPT ![r] = parent]
                   /\ Goto(r, IF parent THEN "attach" ELSE "crashed")
    /\ UNCHANGED <<platform, file, config, err, cmdline, tool, exitCode>>

DriveLine(config_data) ==
    Line("INFO", <<"Mounting Veracrypt drive at drive number '">>
                 \o StrOf(config_data, "physical_drive_num") \o <<"'...">>)

\* Lines 223-224: attach the drive for the encryption tool.
MainAttach(r) ==
    /\ pc[r] = "attach" /\ MayStep(r)
    /\ Say(r, <<DriveLine(config[r])>>)
    /\ Do(r, <<mount_physical_drive(StrOf(config[r], "physical_drive_num"),
                                    Get(config[r], "wsl_exe", PyNone))>>)
    /\ Goto(r, "build")
    /\ UNCHANGED <<platform, file, oracle, asked, config, err, cmdline, tool,
                   dirExists, exitCode>>

\* Lines 226-235: build the command line and log its last two tokens.
MainBuild(r) ==
    /\ pc[r] = "build" /\ MayStep(r)
    /\ LET built == build_veracrypt_cmdline(config[r], platform)
       IN  IF built.raised
           THEN Goto(r, "crashed") /\ UNCHANGED <<cmdline, log>>
           ELSE /\ cmdline' = [cmdline EXCEPT ![r] = built.value]
                /\ Say(r, <<VolumeLine(built.value)>>)
                /\ Goto(r, "launch")
    /\ UNCHANGED <<platform, file, oracle, asked, config, trace, err, tool,
                   dirExists, exitCode>>

\* Line 238: start the tool through a shell.
MainLaunch(r) ==
    /\ pc[r] = "launch" /\ MayStep(r)
    /\ Do(r, <<RunEvent("popen", <<JoinWith(cmdline[r], " ")>>)>>)
    /\ tool' = [tool EXCEPT ![r] = "running"]
    /\ Goto(r, "wait")
    /\ UNCHANGED <<platform, file, oracle, asked, config, log, err, cmdline,
                   dirExists, exitCode>>

\* The tool ends, with success or with an error, when it chooses to.
ToolExits(r) ==
    /\ tool[r] = "running"
    /\ \E status \in {"exited_ok", "exited_error"} :
         tool' = [tool EXCEPT ![r] = status]
    /\ UNCHANGED <<platform, file, oracle, asked, pc, config, log, trace, err,
                   cmdline, dirExists, exitCode>>

ToolExited(r) == tool[r] \in {"exited_ok", "exited_error"}

\* A launch that is not waited for.
WaitSkipped(r) == TRUE

\* Popen.wait() returns once the process has ended.
WaitReturns(r) == ToolExited(r)

\* Lines 240-241: wait for the tool, then return 0.
MainWait(r) ==
    /\ pc[r] = "wait" /\ MayStep(r)
    /\ WaitReturns(r)
    /\ Do(r, <<Event("wait")>>)
    /\ exitCode' = [exitCode EXCEPT ![r] = <<ExitSuccess>>]
    /\ Goto(r, "done")
    /\ UNCHANGED <<platform, file, oracle, asked, config, log, err, cmdline,
                   tool, dirExists>>

\* Lines 243-246: report the AdminError and pause.
ExceptAdmin(r) ==
    /\ pc[r] = "except_admin" /\ MayStep(r)
    /\ Say(r, AdminErrorLines \o <<PausePrompt>>)
    /\ Goto(r, "paused")
    /\ UNCHANGED <<platform, file, oracle, asked, config, trace, err, cmdline,
                   tool, dirExists, exitCode>>

\* Lines 249-252: report the ConfigError and pause.
ExceptConfig(r) ==
    /\ pc[r] = "except_config" /\ MayStep(r)
    /\ Say(r, ConfigErrorLines(err[r].message) \o <<PausePrompt>>)
    /\ Goto(r, "paused")
    /\ UNCHANGED <<platform, file, oracle, asked, config, trace, err, cmdline,
                   tool, dirExists, exitCode>>

\* Lines 247 and 253: the user answers the pause and main returns its error code.
PauseReturns(r) ==
    /\ pc[r] = "paused" /\ MayStep(r)
    /\ Do(r, <<Event("pause")>>)
    /\ exitCode' = [exitCode EXCEPT ![r] = <<ExitCodeOf(err[r].kind)>>]
    /\ Goto(r, "done")
    /\ UNCHANGED <<platform, file, oracle, asked, config, log, err, cmdline,
                   tool, dirExists>>

MainStep(r) ==
    \/ MainCheckRights(r)
    \/ MainLoad(r)
    \/ ValidateWslRoot(r)
    \/ ValidateWslExe(r)
    \/ ValidateDriveNum(r)
    \/ ValidatePartition(r)
    \/ ValidateAttach(r)
    \/ ValidateLsblk(r)
    \/ ValidatePassword(r)
    \/ MainMountPoint(r)
    \/ MainAttach(r)
    \/ MainBuild(r)
    \/ MainLaunch(r)
    \/ MainWait(r)
    \/ ExceptAdmin(r)
    \/ ExceptConfig(r)

Next == \E r \in Runs : MainStep(r) \/ PauseReturns(r) \/ ToolExits(r)

Spec == Init /\ [][Next]_vars

\* The interpreter runs main's next statement whenever that statement can run;
\* the user and the tool answer when they choose to.
\* The keys that decide no branch of main are left out of the configuration.
InitFair ==
    /\ Init
    /\ DOMAIN file[1].data \cap (PassThrough \cup {"slot_num"}) = {}

FairSpec == InitFair /\ [][Next]_vars /\ \A r \in Runs : WF_vars(MainStep(r))

(***************************************************************************)
(* build_veracrypt_cmdline alone, on any configuration and any platform.   *)
(***************************************************************************)
InitBuild ==
    /\ platform \in Platforms
    /\ \E c \in AllConfigs : file = [r \in Runs |-> ConfigFile(c)]
    /\ pc = [r \in Runs |-> IF r = 1 THEN "call_build" ELSE "idle"]
    /\ Quiet

CallBuild(r) ==
    /\ pc[r] = "call_build"
    /\ LET built == build_veracrypt_cmdline(file[r].data, platform)
       IN  /\ cmdline' = [cmdline EXCEPT ![r] = built.value]
           /\ Goto(r, IF built.raised THEN "raised" ELSE "returned")
    /\ UNCHANGED <<platform, file, oracle, asked, config, log, trace, err, tool,
                   dirExists, exitCode>>

NextBuild == \E r \in Runs : CallBuild(r)

SpecBuild == InitBuild /\ [][NextBuild]_vars

(***************************************************************************)
(* What a run has done so far.                                             *)
(***************************************************************************)
Called(r, op) == \E i \in DOMAIN trace[r] : trace[r][i].op = op

Count(r, op) == Cardinality({i \in DOMAIN trace[r] : trace[r][i].op = op})

\* main has called load_config_file and got the section.
Loaded(r) == Called(r, "read_config") /\ file[r].section

ValidationLabels ==
    {"v_wsl_root", "v_wsl_exe", "v_drive_num", "v_partition", "v_attach",
     "v_lsblk", "v_password"}

\* validate_config_data was called and has returned or raised.
ValidationEnded(r) == Loaded(r) /\ pc[r] \notin ValidationLabels

Returned(r, code) == pc[r] = "done" /\ exitCode[r] = <<code>>

(***************************************************************************)
(* C1.  In every run of main where the privilege check returns false, main *)
(* returns the privilege-error exit code -1, the configuration file is     *)
(* never loaded, the configuration is never mutated, no mount-point        *)
(* directory is created and no external process is invoked.                *)
(***************************************************************************)
\* The host grants the rights have_admin_rights asks for.
HostGrantsRights ==
    platform \in SupportedPlatforms /\ "admin" \in asked /\ oracle.admin

RightsDenied(r) == pc[r] # "start" /\ ~HostGrantsRights

C1_NoRightsNoEffects ==
    \A r \in Runs :
        RightsDenied(r) =>
            /\ err[r].kind = "admin"
            /\ pc[r] \in {"except_admin", "paused", "done"}
            /\ pc[r] = "done" => exitCode[r] = <<-1>>
            /\ \A i \in DOMAIN trace[r] : trace[r][i].op = "pause"
            /\ config[r] = EmptyConfig
            /\ ~dirExists[r]
            /\ tool[r] = "none"
            /\ cmdline[r] = <<>>

C1_Witness ==
    \E r \in Runs : RightsDenied(r) /\ Returned(r, -1) /\ platform = "linux"

(***************************************************************************)
(* C2.  The last two tokens build_veracrypt_cmdline returns are, in order, *)
(* the drive partition and the computed mount point.                       *)
(***************************************************************************)
\* The mount point as the claim writes it.
WrittenMountPoint(config_data, plat) ==
    IF plat = "win32"
    THEN <<"/", "mnt", "/", "wsl", "/", "PHYSICALDRIVE">>
         \o StrOf(config_data, "physical_drive_num")
    ELSE <<"/", "media", "/", "veracrypt">> \o Get(config_data, "slot_num", <<"1">>)

\* C2 as claimed: on every platform, for every configuration.
C2_Original ==
    \A r \in Runs :
        pc[r] = "returned" =>
            LET list == cmdline[r]
                n == Len(list)
            IN  /\ n >= 2
                /\ Has(file[r].data, "drive_partition")
                     => list[n - 1] = file[r].data["drive_partition"]
                /\ list[n] = WrittenMountPoint(file[r].data, platform)

\* C2 as amended: on linux and win32 the last two tokens are the formatted
\* drive_partition (the text None for a missing key) and the mount point in
\* pathlib's normal form (no repeated and no trailing separator); on any other
\* platform no mount point is appended and the partition is the last token.
C2_LastTwoTokens ==
    \A r \in Runs :
        pc[r] = "returned" =>
            LET list == cmdline[r]
                n == Len(list)
                written == WrittenMountPoint(file[r].data, platform)
            IN  /\ n >= 2
                /\ platform \in SupportedPlatforms =>
                     /\ list[n - 1] = StrOf(file[r].data, "drive_partition")
                     /\ list[n] = DropSeparators(written, Len(written))
                /\ platform \notin SupportedPlatforms =>
                     /\ list[n] = StrOf(file[r].data, "drive_partition")
                     /\ list[n - 1] = <<"--slot=">> \o Get(file[r].data, "slot_num", <<"1">>)

C2_Witness ==
    \E r \in Runs :
        /\ pc[r] = "returned"
        /\ platform = "linux"
        /\ Truthy(file[r].data, "drive_partition")
        /\ Has(file[r].data, "slot_num")
        /\ Len(file[r].data["slot_num"]) = 2
        /\ cmdline[r][Len(cmdline[r])] # WrittenMountPoint(file[r].data, platform)

(***************************************************************************)
(* C4.  With use_truecrypt true the flag "-tc" is the token at index 3 of  *)
(* the returned sequence, and the native Linux sequence never contains     *)
(* "-m=nokernelcrypto".                                                    *)
(***************************************************************************)
\* The token at a 0-based index.
TokenAt(list, index) == IF index < Len(list) THEN list[index + 1] ELSE <<>>

Contains(list, token) == \E i \in DOMAIN list : list[i] = token

LegacyRequested(r) ==
    pc[r] = "returned" /\ GetBoolean(file[r].data, "use_truecrypt") = "true"

\* C4 as claimed: index 3 on the native and on the compatibility-layer path.
C4_Original ==
    \A r \in Runs :
        /\ LegacyRequested(r) /\ platform \in SupportedPlatforms
             => TokenAt(cmdline[r], 3) = <<"-tc">>
        /\ pc[r] = "returned" /\ platform = "linux"
             => ~Contains(cmdline[r], <<"-m=nokernelcrypto">>)

\* C4 as amended: index 3 on the native path; on the compatibility-layer path
\* index 3 holds "-m=nokernelcrypto" and "-tc" is at index 5.
C4_LegacyFlagIndex ==
    \A r \in Runs :
        /\ LegacyRequested(r) /\ platform = "linux"
             => TokenAt(cmdline[r], 3) = <<"-tc">>
        /\ LegacyRequested(r) /\ platform = "win32"
             => /\ TokenAt(cmdline[r], 3) = <<"-m=nokernelcrypto">>
                /\ TokenAt(cmdline[r], 5) = <<"-tc">>
        /\ pc[r] = "returned" /\ platform = "linux"
             => ~Contains(cmdline[r], <<"-m=nokernelcrypto">>)

C4_Witness ==
    \E r \in Runs :
        /\ LegacyRequested(r)
        /\ platform = "win32"
        /\ Has(file[r].data, "wsl_exe")
        /\ Contains(cmdline[r], <<"-tc">>)

(***************************************************************************)
(* C3.  No log line, console message or error message of a run contains    *)
(* the resolved password, at any logging level and on every path: two runs *)
(* that differ only in the password value print the same.                  *)
(***************************************************************************)
IsPrefix(a, b) == Len(a) <= Len(b) /\ SubSeq(b, 1, Len(a)) = a

SecretPieces == {s[i] : s \in Secrets, i \in 1..1}

NoSecretIn(text) == \A j \in DOMAIN text : text[j] \notin SecretPieces

C5_NeverReturnsEarly ==
    \A r \in Runs :
        /\ tool[r] = "running" => pc[r] = "wait"
        /\ Called(r, "popen") /\ pc[r] \in Terminal =>
             /\ ToolExited(r)
             /\ Returned(r, 0)
             /\ trace[r][Len(trace[r])].op = "wait"

C5_WaitsThenReturnsZero ==
    /\ []C5_NeverReturnsEarly
    /\ \A r \in Runs : ToolExited(r) ~> Returned(r, 0)

C5_Witness ==
    \E r \in Runs : Returned(r, 0) /\ tool[r] = "exited_error"

(***************************************************************************)
(* C6.  When loading or validation fails with a ConfigError, main pauses   *)
(* for acknowledgment and returns -2, a code distinct from -1 and 0; the   *)
(* tool is never launched and no mount-point directory is created.         *)
(***************************************************************************)
\* A value validation requires is missing and cannot be derived.
RequiredMissing(r) ==
    \/ ~Truthy(file[r].data, "drive_partition")
    \/ /\ platform = "win32"
       /\ \/ ~Truthy(file[r].data, "wsl_root")
          \/ ~Truthy(file[r].data, "physical_drive_num")
          \/ ~oracle.which

C6_ConfigErrorExit ==
    /\ ExitConfigError \notin {ExitAdminError, ExitSuccess}
    /\ \A r \in Runs :
         /\ Called(r, "read_config") /\ ~file[r].section => err[r].kind = "config"
         /\ ValidationEnded(r) /\ RequiredMissing(r) => err[r].kind = "config"
         /\ err[r].kind = "config" =>
              /\ pc[r] \in {"except_config", "paused", "done"}
              /\ tool[r] = "none"
              /\ ~Called(r, "popen")
              /\ ~Called(r, "mkdir")
              /\ pc[r] \in {"paused", "done"} => log[r][Len(log[r])] = PausePrompt
              /\ pc[r] = "done" =>
                   /\ exitCode[r] = <<-2>>
                   /\ trace[r][Len(trace[r])].op = "pause"

C6_Witness ==
    \E r \in Runs : Returned(r, -2) /\ err[r].kind = "config" /\ Called(r, "attach")

(***************************************************************************)
(* C7.  On the native Linux path, when drive_partition is absent or empty, *)
(* validation runs lsblk before it fails, raises a ConfigError whose       *)
(* message holds lsblk's captured output, and never asks for the password. *)
(***************************************************************************)
EndsWith(text, tail) ==
    Len(tail) <= Len(text)
    /\ SubSeq(text, Len(text) - Len(tail) + 1, Len(text)) = tail

PartitionUnset(r) ==
    platform = "linux" /\ Loaded(r) /\ ~Truthy(file[r].data, "drive_partition")

C7_ListingInError ==
    \A r \in Runs :
        PartitionUnset(r) =>
            /\ ~Called(r, "getpass")
            /\ PasswordPrompt \notin {log[r][i] : i \in DOMAIN log[r]}
            /\ pc[r] \in {"v_partition", "v_lsblk"} =>
                 err[r].kind = "none" /\ ~Called(r, "lsblk")
            /\ pc[r] \notin {"v_partition", "v_lsblk"} =>
                 /\ Count(r, "lsblk") = 1
                 /\ err[r].kind = "config"
                 /\ EndsWith(err[r].message, Decode(oracle.lsblk))
                 /\ err[r].message[1] = PartitionError(<<>>)[1]

C7_Witness ==
    \E r \in Runs :
        /\ PartitionUnset(r)
        /\ Returned(r, -2)
        /\ Len(oracle.lsblk) >= 1
        /\ Has(file[r].data, "drive_partition")

(***************************************************************************)
(* C8.  Storing the typed password is the only change validation makes to  *)
(* the configuration.                                                      *)
(***************************************************************************)
SameItem(r, k) ==
    /\ Has(config[r], k) = Has(file[r].data, k)
    /\ Has(config[r], k) => config[r][k] = file[r].data[k]

\* volume_password is written only when it was not set and every check passed.
PasswordFrame(r) ==
    \/ SameItem(r, "volume_password")
    \/ /\ ~Truthy(file[r].data, "volume_password")
       /\ Called(r, "getpass")
       /\ ValidationEnded(r)
       /\ err[r].kind = "none"
       /\ ~RequiredMissing(r)

\* C8 as claimed: no key but volume_password changes.
C8_Original ==
    \A r \in Runs :
        Loaded(r) =>
            /\ \A k \in Keys \ {"volume_password"} : SameItem(r, k)
            /\ PasswordFrame(r)

\* C8 as amended: on the compatibility-layer path validation also stores the
\* default "wsl" under wsl_exe when that key is missing and wsl_root is set.
WslExeFrame(r) ==
    \/ SameItem(r, "wsl_exe")
    \/ /\ platform = "win32"
       /\ ~Has(file[r].data, "wsl_exe")
       /\ Truthy(file[r].data, "wsl_root")
       /\ config[r]["wsl_exe"] = <<"wsl">>
       /\ pc[r] \notin {"v_wsl_root", "v_wsl_exe"}

C8_OnlyPasswordAndWslExe ==
    \A r \in Runs :
        Loaded(r) =>
            /\ \A k \in Keys \ {"volume_password", "wsl_exe"} : SameItem(r, k)
            /\ WslExeFrame(r)
            /\ PasswordFrame(r)
            /\ platform # "win32" => SameItem(r, "wsl_exe")

C8_Witness ==
    \E r \in Runs :
        /\ platform = "win32"
        /\ Returned(r, 0)
        /\ ~Has(file[r].data, "wsl_exe")
        /\ Has(config[r], "wsl_exe")
        /\ Called(r, "getpass")
        /\ ~SameItem(r, "volume_password")

(***************************************************************************)
(* C9.  On the compatibility-layer path the WSL checks come before the     *)
(* partition is resolved: the drive is attached or the partitions listed   *)
(* only with wsl_root set, wsl_exe found and physical_drive_num set, and a *)
(* failed check raises ConfigError without attaching or listing.           *)
(***************************************************************************)
WslChecksFailed(r) ==
    /\ Loaded(r)
    /\ pc[r] \notin {"v_wsl_root", "v_wsl_exe", "v_drive_num"}
    /\ \/ ~Truthy(file[r].data, "wsl_root")
       \/ ~oracle.which
       \/ ~Truthy(file[r].data, "physical_drive_num")

C9_WslChecksFirst ==
    \A r \in Runs :
        platform = "win32" =>
            /\ Called(r, "attach") \/ Called(r, "lsblk") =>
                 /\ Truthy(config[r], "wsl_root")
                 /\ Truthy(config[r], "physical_drive_num")
                 /\ "which" \in asked /\ oracle.which
                 /\ \E i \in DOMAIN trace[r] :
                      /\ trace[r][i] = RunEvent("which", <<config[r]["wsl_exe"]>>)
                      /\ \A j \in DOMAIN trace[r] :
                           trace[r][j].op \in {"attach", "lsblk"} => i < j
            /\ WslChecksFailed(r) =>
                 /\ err[r].kind = "config"
                 /\ ~Called(r, "attach")
                 /\ ~Called(r, "lsblk")

C9_Witness ==
    \E r \in Runs :
        /\ platform = "win32"
        /\ Called(r, "attach") /\ Called(r, "lsblk")
        /\ err[r].kind = "config"

(***************************************************************************)
(* C10.  On the compatibility-layer path a run attaches the drive at most  *)
(* once: an attachment made during validation ends in a ConfigError and    *)
(* exit code -2 without a launch, and a run that launches the tool has     *)
(* attached exactly once, after validation succeeded and with the          *)
(* mount-point directory there, before the launch.                         *)
(***************************************************************************)
\* The drive was attached by validate_config_data.
AttachedInValidation(r) ==
    Called(r, "attach") /\ (pc[r] = "v_lsblk" \/ Called(r, "lsblk"))

C10_AttachAtMostOnce ==
    \A r \in Runs :
        platform = "win32" =>
            /\ Count(r, "attach") <= 1
            /\ AttachedInValidation(r) =>
                 /\ pc[r] \in {"v_lsblk", "except_config", "paused", "done"}
                 /\ pc[r] # "v_lsblk" => err[r].kind = "config"
                 /\ pc[r] = "done" => exitCode[r] = <<-2>>
                 /\ ~Called(r, "popen")
                 /\ tool[r] = "none"
            /\ Called(r, "attach") /\ ~AttachedInValidation(r) =>
                 /\ ValidationEnded(r)
                 /\ err[r].kind = "none"
                 /\ ~RequiredMissing(r)
                 /\ Truthy(config[r], "volume_password")
                 /\ dirExists[r]
            /\ Called(r, "popen") =>
                 /\ Count(r, "attach") = 1
                 /\ ~AttachedInValidation(r)
                 /\ \A i, j \in DOMAIN trace[r] :
                      trace[r][i].op = "attach" /\ trace[r][j].op = "popen" => i < j

C10_Witness ==
    \E r \in Runs :
        /\ platform = "win32"
        /\ Returned(r, 0)
        /\ Count(r, "attach") = 1
        /\ Called(r, "mkdir")

====
